---- MODULE Spec2Model ----
(***************************************************************************)
(* The CRM state container of contexts/CRMContext.tsx: the reducer         *)
(* crmReducer, the controller operations of CRMProvider and the remote     *)
(* gateway crmAPI they call.                                               *)
(*                                                                         *)
(* JavaScript runs one task at a time.  A controller operation runs until  *)
(* its await, is suspended while the gateway call is in flight, and its    *)
(* continuation runs to completion once the call has settled.  Every       *)
(* dispatch is one reducer transition of `state`.                          *)
(***************************************************************************)
EXTENDS Integers, Sequences, FiniteSets, Bags, TLC

\* ------------------------------------------------------------------ bounds
MaxCalls == 2   \* controller operations issued besides loadInitialData
MaxId    == 2   \* identities the gateway assigns per entity kind
MaxVal   == 2   \* distinct field contents of a draft or a patch
MaxSeed  == 1   \* records per kind the gateway holds before the client starts
MaxLen   == 4   \* records the store holds in the runs of the reducer alone
MaxList  == 2   \* length of a list a SET_* action carries in those runs
MaxAdds  == 3   \* length of a sequence of ADD_* actions
MaxLiveCalls == 1   \* operations issued in the runs checked for liveness

Kinds == {"contacts", "leads", "deals", "activities"}
Ids   == 1..MaxId
Vals  == 1..MaxVal

NULL == "null"

\* A record is its identity plus its other fields, abstracted to one value.
Rec(i, v) == [id |-> i, v |-> v]
NoRec     == Rec(0, 0)

VARIABLES
    state,      \* CRMState held by useReducer
    loadPc,     \* position of the one loadInitialData call
    fetch,      \* the four promises handed to Promise.all
    calls,      \* bag of the other gateway calls in flight
    issued,     \* number of controller operations issued so far
    insights,   \* what the last finished getAIInsights gave its caller
    srv,        \* records the gateway holds, per kind
    nextId      \* next identity the gateway assigns, per kind

vars == <<state, loadPc, fetch, calls, issued, insights, srv, nextId>>

\* ------------------------------------------------------------ the reducer
initialState ==
    [activities |-> <<>>, contacts |-> <<>>, deals |-> <<>>, error |-> NULL,
     leads |-> <<>>, loading |-> FALSE]

Action(t, p) == [payload |-> p, type |-> t]

\* [...xs, payload]: the new record is put last.
Prepend_atEnd(p, xs) == xs \o <<p>>

\* [payload, ...xs]
Prepend(p, xs) == <<p>> \o xs

\* xs.map(c => c.id !== payload.id ? payload : c): the test is inverted.
RECURSIVE MapReplace_inverted(_, _)
MapReplace_inverted(xs, p) ==
    IF xs = <<>> THEN <<>>
    ELSE <<IF Head(xs).id # p.id THEN p ELSE Head(xs)>> \o MapReplace_inverted(Tail(xs), p)

\* An upsert: a record whose id matches no element is appended.
MapReplace_upsert(xs, p) ==
    IF \E i \in 1..Len(xs) : xs[i].id = p.id
    THEN [i \in 1..Len(xs) |-> IF xs[i].id = p.id THEN p ELSE xs[i]]
    ELSE xs \o <<p>>

\* xs.map(c => payload): the comparison of ids is left out.
MapReplace_everyElement(xs, p) == [i \in 1..Len(xs) |-> p]

\* xs.map(c => c.id === payload.id ? payload : c)
RECURSIVE MapReplace(_, _)
MapReplace(xs, p) ==
    IF xs = <<>> THEN <<>>
    ELSE <<IF Head(xs).id = p.id THEN p ELSE Head(xs)>> \o MapReplace(Tail(xs), p)

\* xs.filter(c => c.id === id): the test is inverted.
FilterOut_inverted(xs, id) == SelectSeq(xs, LAMBDA c : c.id = id)

\* xs.filter(c => c.id !== id)
RECURSIVE FilterOut(_, _)
FilterOut(xs, id) ==
    IF xs = <<>> THEN <<>>
    ELSE (IF Head(xs).id # id THEN <<Head(xs)>> ELSE <<>>) \o FilterOut(Tail(xs), id)

\* SET_CONTACTS merges the list into the collection instead of replacing it.
crmReducer_setMerges(s, a) ==
    CASE a.type = "SET_LOADING"    -> [s EXCEPT !.loading = a.payload]
      [] a.type = "SET_ERROR"      -> [s EXCEPT !.error = a.payload]
      [] a.type = "SET_CONTACTS"   -> [s EXCEPT !.contacts = s.contacts \o a.payload]
      [] a.type = "ADD_CONTACT"    -> [s EXCEPT !.contacts = Prepend(a.payload, s.contacts)]
      [] a.type = "UPDATE_CONTACT" -> [s EXCEPT !.contacts = MapReplace(s.contacts, a.payload)]
      [] a.type = "DELETE_CONTACT" -> [s EXCEPT !.contacts = FilterOut(s.contacts, a.payload)]
      [] a.type = "SET_LEADS"      -> [s EXCEPT !.leads = a.payload]
      [] a.type = "ADD_LEAD"       -> [s EXCEPT !.leads = Prepend(a.payload, s.leads)]
      [] a.type = "UPDATE_LEAD"    -> [s EXCEPT !.leads = MapReplace(s.leads, a.payload)]
      [] a.type = "SET_DEALS"      -> [s EXCEPT !.deals = a.payload]
      [] a.type = "ADD_DEAL"       -> [s EXCEPT !.deals = Prepend(a.payload, s.deals)]
      [] a.type = "UPDATE_DEAL"    -> [s EXCEPT !.deals = MapReplace(s.deals, a.payload)]
      [] a.type = "SET_ACTIVITIES" -> [s EXCEPT !.activities = a.payload]
      [] a.type = "ADD_ACTIVITY"   -> [s EXCEPT !.activities = Prepend(a.payload, s.activities)]
      [] OTHER                     -> s

\* SET_ERROR also clears the loading flag.
crmReducer_errorStopsLoading(s, a) ==
    CASE a.type = "SET_LOADING"    -> [s EXCEPT !.loading = a.payload]
      [] a.type = "SET_ERROR"      -> [s EXCEPT !.error = a.payload, !.loading = FALSE]
      [] a.type = "SET_CONTACTS"   -> [s EXCEPT !.contacts = a.payload]
      [] a.type = "ADD_CONTACT"    -> [s EXCEPT !.contacts = Prepend(a.payload, s.contacts)]
      [] a.type = "UPDATE_CONTACT" -> [s EXCEPT !.contacts = MapReplace(s.contacts, a.payload)]
      [] a.type = "DELETE_CONTACT" -> [s EXCEPT !.contacts = FilterOut(s.contacts, a.payload)]
      [] a.type = "SET_LEADS"      -> [s EXCEPT !.leads = a.payload]
      [] a.type = "ADD_LEAD"       -> [s EXCEPT !.leads = Prepend(a.payload, s.leads)]
      [] a.type = "UPDATE_LEAD"    -> [s EXCEPT !.leads = MapReplace(s.leads, a.payload)]
      [] a.type = "SET_DEALS"      -> [s EXCEPT !.deals = a.payload]
      [] a.type = "ADD_DEAL"       -> [s EXCEPT !.deals = Prepend(a.payload, s.deals)]
      [] a.type = "UPDATE_DEAL"    -> [s EXCEPT !.deals = MapReplace(s.deals, a.payload)]
      [] a.type = "SET_ACTIVITIES" -> [s EXCEPT !.activities = a.payload]
      [] a.type = "ADD_ACTIVITY"   -> [s EXCEPT !.activities = Prepend(a.payload, s.activities)]
      [] OTHER                     -> s

crmReducer(s, a) ==
    CASE a.type = "SET_LOADING"    -> [s EXCEPT !.loading = a.payload]
      [] a.type = "SET_ERROR"      -> [s EXCEPT !.error = a.payload]
      [] a.type = "SET_CONTACTS"   -> [s EXCEPT !.contacts = a.payload]
      [] a.type = "ADD_CONTACT"    -> [s EXCEPT !.contacts = Prepend(a.payload, s.contacts)]
      [] a.type = "UPDATE_CONTACT" -> [s EXCEPT !.contacts = MapReplace(s.contacts, a.payload)]
      [] a.type = "DELETE_CONTACT" -> [s EXCEPT !.contacts = FilterOut(s.contacts, a.payload)]
      [] a.type = "SET_LEADS"      -> [s EXCEPT !.leads = a.payload]
      [] a.type = "ADD_LEAD"       -> [s EXCEPT !.leads = Prepend(a.payload, s.leads)]
      [] a.type = "UPDATE_LEAD"    -> [s EXCEPT !.leads = MapReplace(s.leads, a.payload)]
      [] a.type = "SET_DEALS"      -> [s EXCEPT !.deals = a.payload]
      [] a.type = "ADD_DEAL"       -> [s EXCEPT !.deals = Prepend(a.payload, s.deals)]
      [] a.type = "UPDATE_DEAL"    -> [s EXCEPT !.deals = MapReplace(s.deals, a.payload)]
      [] a.type = "SET_ACTIVITIES" -> [s EXCEPT !.activities = a.payload]
      [] a.type = "ADD_ACTIVITY"   -> [s EXCEPT !.activities = Prepend(a.payload, s.activities)]
      [] OTHER                     -> s

\* dispatch(a): the next state of useReducer
dispatch(a) == state' = crmReducer(state, a)

\* ------------------------------------------------------------ the gateway
Pending  == [res |-> <<>>, st |-> "pending"]
Unsent   == [res |-> <<>>, st |-> "unsent"]

AnyFetchRejected == \E k \in Kinds : fetch[k].st = "rejected"

\* Promise.allSettled in place of Promise.all: the batch goes on once every
\* fetch has settled, whatever its outcome.
PromiseAll_allSettled(f) ==
    IF \A k \in Kinds : f[k].st \in {"resolved", "rejected"} THEN "fulfilled"
    ELSE "pending"

\* Promise.all over the four fetches: rejected by the first rejection,
\* fulfilled once all four are resolved.
PromiseAll(f) ==
    IF \E k \in Kinds : f[k].st = "rejected" THEN "rejected"
    ELSE IF \A k \in Kinds : f[k].st = "resolved" THEN "fulfilled"
    ELSE "pending"

\* What getAIInsights gives its caller.
Returned(r)  == [ret |-> "value", val |-> r.v]
ReturnedNull == [ret |-> "null", val |-> 0]
Threw        == [ret |-> "throw", val |-> 0]
NotCalled    == [ret |-> "none", val |-> 0]

\* The records the gateway holds when the client starts: n of each kind, with
\* the identities 1..n.
RECURSIVE Seeded(_)
Seeded(n) == IF n = 0 THEN <<>> ELSE Seeded(n - 1) \o <<Rec(n, 0)>>

Init ==
    /\ state = initialState
    /\ loadPc = "idle"
    /\ fetch = [k \in Kinds |-> Unsent]
    /\ calls = EmptyBag
    /\ issued = 0
    /\ insights = NotCalled
    /\ \E n \in 0..MaxSeed :
          /\ srv = [k \in Kinds |-> Seeded(n)]
          /\ nextId = [k \in Kinds |-> n + 1]

\* --------------------------------------------------- scheduling of tasks
\* Every dispatch of loadInitialData is followed by an await, so that other
\* tasks run between two of them.
Suspended_everywhere(pc) == TRUE

\* loadInitialData is suspended only at its one await (the Promise.all), before
\* it is called and after it has returned; between two of its dispatches no
\* other task runs.
Suspended(pc) == pc \in {"idle", "awaiting", "done"}

JsIdle == Suspended(loadPc)

\* ------------------------------------------------------- loadInitialData
\* useEffect(() => { loadInitialData() }, []): called once per provider.
\* dispatch SET_LOADING true, then issue the four fetches and await them.
loadInitialData_call ==
    /\ loadPc = "idle"
    /\ dispatch(Action("SET_LOADING", TRUE))
    /\ fetch' = [k \in Kinds |-> Pending]
    /\ loadPc' = "awaiting"
    /\ UNCHANGED <<calls, issued, insights, srv, nextId>>

\* The continuation after the await: the first dispatch of the try block, or
\* the dispatch of the catch block.
loadInitialData_resume ==
    /\ loadPc = "awaiting"
    /\ PromiseAll(fetch) # "pending"
    /\ IF PromiseAll(fetch) = "fulfilled"
       THEN /\ dispatch(Action("SET_CONTACTS", fetch["contacts"].res))
            /\ loadPc' = "SET_LEADS"
       ELSE /\ dispatch(Action("SET_ERROR", "Failed to load CRM data"))
            /\ loadPc' = "finally"
    /\ UNCHANGED <<fetch, calls, issued, insights, srv, nextId>>

loadInitialData_setLeads ==
    /\ loadPc = "SET_LEADS"
    /\ dispatch(Action("SET_LEADS", fetch["leads"].res))
    /\ loadPc' = "SET_DEALS"
    /\ UNCHANGED <<fetch, calls, issued, insights, srv, nextId>>

\* A slip of the pen: the deals are stored from the leads that were fetched.
loadInitialData_setDeals_fromLeads ==
    /\ loadPc = "SET_DEALS"
    /\ dispatch(Action("SET_DEALS", fetch["leads"].res))
    /\ loadPc' = "SET_ACTIVITIES"
    /\ UNCHANGED <<fetch, calls, issued, insights, srv, nextId>>

loadInitialData_setDeals ==
    /\ loadPc = "SET_DEALS"
    /\ dispatch(Action("SET_DEALS", fetch["deals"].res))
    /\ loadPc' = "SET_ACTIVITIES"
    /\ UNCHANGED <<fetch, calls, issued, insights, srv, nextId>>

loadInitialData_setActivities ==
    /\ loadPc = "SET_ACTIVITIES"
    /\ dispatch(Action("SET_ACTIVITIES", fetch["activities"].res))
    /\ loadPc' = "finally"
    /\ UNCHANGED <<fetch, calls, issued, insights, srv, nextId>>

\* SET_LOADING false is dispatched at the end of the try block only: after a
\* failure the flag is left as it is.
loadInitialData_finally_tryOnly ==
    /\ loadPc = "finally"
    /\ IF AnyFetchRejected
       THEN UNCHANGED state
       ELSE dispatch(Action("SET_LOADING", FALSE))
    /\ loadPc' = "done"
    /\ UNCHANGED <<fetch, calls, issued, insights, srv, nextId>>

loadInitialData_finally ==
    /\ loadPc = "finally"
    /\ dispatch(Action("SET_LOADING", FALSE))
    /\ loadPc' = "done"
    /\ UNCHANGED <<fetch, calls, issued, insights, srv, nextId>>

loadInitialData ==
    \/ loadInitialData_call
    \/ loadInitialData_resume
    \/ loadInitialData_setLeads
    \/ loadInitialData_setDeals
    \/ loadInitialData_setActivities
    \/ loadInitialData_finally

\* ------------------------------------------- the other controller operations
Call(op, verb, kind, id, arg) ==
    [arg |-> arg, id |-> id, kind |-> kind, op |-> op, res |-> NoRec,
     st |-> "sent", verb |-> verb]

One(c) == SetToBag({c})

Settled(op) == {c \in BagToSet(calls) : c.op = op /\ c.st # "sent"}

\* `await crmAPI.x(...)`: the operation issues its gateway call and is suspended.
Await(op, verb, kind, id, arg) ==
    /\ JsIdle
    /\ issued < MaxCalls
    /\ issued' = issued + 1
    /\ calls' = calls (+) One(Call(op, verb, kind, id, arg))
    /\ UNCHANGED <<state, loadPc, fetch, insights, srv, nextId>>

\* The operation keeps a loading flag of its own and clears it when done.
TryCatch_clearsLoading(c, ok, msg) ==
    /\ JsIdle
    /\ BagIn(c, calls)
    /\ c.st # "sent"
    /\ calls' = calls (-) One(c)
    /\ state' = crmReducer(crmReducer(state, IF c.st = "resolved" THEN ok
                                             ELSE Action("SET_ERROR", msg)),
                           Action("SET_LOADING", FALSE))
    /\ UNCHANGED <<loadPc, fetch, issued, insights, srv, nextId>>

\* The operation clears the error when its call succeeds.
TryCatch_clearsError(c, ok, msg) ==
    /\ JsIdle
    /\ BagIn(c, calls)
    /\ c.st # "sent"
    /\ calls' = calls (-) One(c)
    /\ IF c.st = "resolved"
       THEN state' = crmReducer(crmReducer(state, ok), Action("SET_ERROR", NULL))
       ELSE dispatch(Action("SET_ERROR", msg))
    /\ UNCHANGED <<loadPc, fetch, issued, insights, srv, nextId>>

\* try { const r = await ...; dispatch(ok) } catch { dispatch(SET_ERROR msg) }
TryCatch(c, ok, msg) ==
    /\ JsIdle
    /\ BagIn(c, calls)
    /\ c.st # "sent"
    /\ calls' = calls (-) One(c)
    /\ IF c.st = "resolved"
       THEN dispatch(ok)
       ELSE dispatch(Action("SET_ERROR", msg))
    /\ UNCHANGED <<loadPc, fetch, issued, insights, srv, nextId>>

\* dispatch({ type: 'ADD_CONTACT', payload: newContact })
AddContact(newContact) == Action("ADD_CONTACT", newContact)

createContact ==
    \/ \E v \in Vals : Await("createContact", "create", "contacts", 0, v)
    \/ \E c \in Settled("createContact") :
          TryCatch(c, AddContact(c.res), "Failed to create contact")

updateContact ==
    \/ \E i \in Ids, v \in Vals : Await("updateContact", "update", "contacts", i, v)
    \/ \E c \in Settled("updateContact") :
          TryCatch(c, Action("UPDATE_CONTACT", c.res), "Failed to update contact")

\* An optimistic delete: the record is removed when the call is issued.
deleteContact_optimistic ==
    \/ \E i \in Ids :
          /\ JsIdle
          /\ issued < MaxCalls
          /\ issued' = issued + 1
          /\ calls' = calls (+) One(Call("deleteContact", "delete", "contacts", i, 0))
          /\ dispatch(Action("DELETE_CONTACT", i))
          /\ UNCHANGED <<loadPc, fetch, insights, srv, nextId>>
    \/ \E c \in Settled("deleteContact") :
          TryCatch(c, Action("DELETE_CONTACT", c.id), "Failed to delete contact")

deleteContact ==
    \/ \E i \in Ids : Await("deleteContact", "delete", "contacts", i, 0)
    \/ \E c \in Settled("deleteContact") :
          TryCatch(c, Action("DELETE_CONTACT", c.id), "Failed to delete contact")

createLead ==
    \/ \E v \in Vals : Await("createLead", "create", "leads", 0, v)
    \/ \E c \in Settled("createLead") :
          TryCatch(c, Action("ADD_LEAD", c.res), "Failed to create lead")

updateLead ==
    \/ \E i \in Ids, v \in Vals : Await("updateLead", "update", "leads", i, v)
    \/ \E c \in Settled("updateLead") :
          TryCatch(c, Action("UPDATE_LEAD", c.res), "Failed to update lead")

createDeal ==
    \/ \E v \in Vals : Await("createDeal", "create", "deals", 0, v)
    \/ \E c \in Settled("createDeal") :
          TryCatch(c, Action("ADD_DEAL", c.res), "Failed to create deal")

updateDeal ==
    \/ \E i \in Ids, v \in Vals : Await("updateDeal", "update", "deals", i, v)
    \/ \E c \in Settled("updateDeal") :
          TryCatch(c, Action("UPDATE_DEAL", c.res), "Failed to update deal")

createActivity ==
    \/ \E v \in Vals : Await("createActivity", "create", "activities", 0, v)
    \/ \E c \in Settled("createActivity") :
          TryCatch(c, Action("ADD_ACTIVITY", c.res), "Failed to create activity")

\* catch { dispatch(...); throw error }: the failure is raised again.
InsightsCatch_rethrow(c) ==
    /\ dispatch(Action("SET_ERROR", "Failed to get AI insights"))
    /\ insights' = Threw

\* try { return await crmAPI.getAIInsights() } catch { dispatch(...); return null }
InsightsCatch(c) ==
    /\ dispatch(Action("SET_ERROR", "Failed to get AI insights"))
    /\ insights' = ReturnedNull

getAIInsights ==
    \/ Await("getAIInsights", "insights", "none", 0, 0)
    \/ \E c \in Settled("getAIInsights") :
          /\ JsIdle
          /\ calls' = calls (-) One(c)
          /\ IF c.st = "resolved"
             THEN insights' = Returned(c.res) /\ UNCHANGED state
             ELSE InsightsCatch(c)
          /\ UNCHANGED <<loadPc, fetch, issued, srv, nextId>>

\* --------------------------------------------------------------- crmAPI
\* The gateway settles a call that is in flight: it resolves it with the
\* server's answer, or rejects it.  A promise settles between two tasks, never
\* in the middle of one.
Sent(verb) == {c \in BagToSet(calls) : c.verb = verb /\ c.st = "sent"}

\* The gateway's own store: the record with r's identity replaced by r, and
\* the record with identity id removed.
Holds(xs, id)   == \E i \in 1..Len(xs) : xs[i].id = id
Merged(xs, r)   == [i \in 1..Len(xs) |-> IF xs[i].id = r.id THEN r ELSE xs[i]]
Without(xs, id) == SelectSeq(xs, LAMBDA x : x.id # id)

Resolve(c, r) ==
    calls' = (calls (-) One(c)) (+) One([c EXCEPT !.st = "resolved", !.res = r])

crmAPI_list(k) ==
    /\ JsIdle
    /\ fetch[k].st = "pending"
    /\ fetch' = [fetch EXCEPT ![k] = [res |-> srv[k], st |-> "resolved"]]
    /\ UNCHANGED <<state, loadPc, calls, issued, insights, srv, nextId>>

crmAPI_listFails(k) ==
    /\ JsIdle
    /\ fetch[k].st = "pending"
    /\ fetch' = [fetch EXCEPT ![k] = [res |-> <<>>, st |-> "rejected"]]
    /\ UNCHANGED <<state, loadPc, calls, issued, insights, srv, nextId>>

crmAPI_create ==
    \E c \in Sent("create") :
        /\ JsIdle
        /\ nextId[c.kind] <= MaxId
        /\ Resolve(c, Rec(nextId[c.kind], c.arg))
        /\ srv' = [srv EXCEPT ![c.kind] = Append(@, Rec(nextId[c.kind], c.arg))]
        /\ nextId' = [nextId EXCEPT ![c.kind] = @ + 1]
        /\ UNCHANGED <<state, loadPc, fetch, issued, insights>>

crmAPI_update ==
    \E c \in Sent("update") :
        /\ JsIdle
        /\ Holds(srv[c.kind], c.id)
        /\ Resolve(c, Rec(c.id, c.arg))
        /\ srv' = [srv EXCEPT ![c.kind] = Merged(@, Rec(c.id, c.arg))]
        /\ UNCHANGED <<state, loadPc, fetch, issued, insights, nextId>>

crmAPI_delete ==
    \E c \in Sent("delete") :
        /\ JsIdle
        /\ Resolve(c, NoRec)
        /\ srv' = [srv EXCEPT ![c.kind] = Without(@, c.id)]
        /\ UNCHANGED <<state, loadPc, fetch, issued, insights, nextId>>

crmAPI_getAIInsights ==
    \E c \in Sent("insights") :
        /\ JsIdle
        /\ \E v \in Vals : Resolve(c, Rec(0, v))
        /\ UNCHANGED <<state, loadPc, fetch, issued, insights, srv, nextId>>

crmAPI_fails ==
    \E c \in BagToSet(calls) :
        /\ JsIdle
        /\ c.st = "sent"
        /\ calls' = (calls (-) One(c)) (+) One([c EXCEPT !.st = "rejected"])
        /\ UNCHANGED <<state, loadPc, fetch, issued, insights, srv, nextId>>

crmAPI ==
    \/ \E k \in Kinds : crmAPI_list(k)
    \/ \E k \in Kinds : crmAPI_listFails(k)
    \/ crmAPI_create
    \/ crmAPI_update
    \/ crmAPI_delete
    \/ crmAPI_getAIInsights
    \/ crmAPI_fails

Next ==
    \/ loadInitialData
    \/ createContact
    \/ updateContact
    \/ deleteContact
    \/ createLead
    \/ updateLead
    \/ createDeal
    \/ updateDeal
    \/ createActivity
    \/ getAIInsights
    \/ crmAPI

Spec == Init /\ [][Next]_vars

\* Every gateway call of loadInitialData eventually settles, and a continuation
\* that can run does run.
FetchSettles(k) == crmAPI_list(k) \/ crmAPI_listFails(k)

LoadContinues ==
    \/ loadInitialData_resume
    \/ loadInitialData_setLeads
    \/ loadInitialData_setDeals
    \/ loadInitialData_setActivities
    \/ loadInitialData_finally

\* The behaviours in which at most MaxLiveCalls other operations are issued.
Few == issued' <= MaxLiveCalls

LiveNext ==
    \/ loadInitialData /\ Few
    \/ createContact /\ Few
    \/ updateContact /\ Few
    \/ deleteContact /\ Few
    \/ createLead /\ Few
    \/ updateLead /\ Few
    \/ createDeal /\ Few
    \/ updateDeal /\ Few
    \/ createActivity /\ Few
    \/ getAIInsights /\ Few
    \/ crmAPI /\ Few

FairSpec ==
    /\ Init /\ [][LiveNext]_vars
    /\ \A k \in Kinds : WF_vars(FetchSettles(k))
    /\ WF_vars(LoadContinues)

\* ------------------------------------------------------ the reducer alone
\* The reducer applied to every action of CRMAction, and to one of a type it
\* does not know, from the initial state on.
Recs  == {Rec(i, v) : i \in Ids, v \in Vals}
Lists == UNION {[1..n -> Recs] : n \in 0..MaxList}

SetType(k) ==
    CASE k = "contacts" -> "SET_CONTACTS" [] k = "leads" -> "SET_LEADS"
      [] k = "deals" -> "SET_DEALS" [] k = "activities" -> "SET_ACTIVITIES"

AddType(k) ==
    CASE k = "contacts" -> "ADD_CONTACT" [] k = "leads" -> "ADD_LEAD"
      [] k = "deals" -> "ADD_DEAL" [] k = "activities" -> "ADD_ACTIVITY"

Updatable == {"contacts", "leads", "deals"}

UpdateType(k) ==
    CASE k = "contacts" -> "UPDATE_CONTACT" [] k = "leads" -> "UPDATE_LEAD"
      [] k = "deals" -> "UPDATE_DEAL"

Messages == {NULL, "message"}

Size(s) == Len(s.contacts) + Len(s.leads) + Len(s.deals) + Len(s.activities)

Reduce(a) ==
    /\ dispatch(a)
    /\ Size(state') <= MaxLen
    /\ UNCHANGED <<loadPc, fetch, calls, issued, insights, srv, nextId>>

ReduceSet     == \E k \in Kinds, l \in Lists : Reduce(Action(SetType(k), l))
ReduceAdd     == \E k \in Kinds, r \in Recs : Reduce(Action(AddType(k), r))
ReduceUpdate  == \E k \in Updatable, r \in Recs : Reduce(Action(UpdateType(k), r))
ReduceDelete  == \E i \in Ids : Reduce(Action("DELETE_CONTACT", i))
ReduceLoading == \E b \in BOOLEAN : Reduce(Action("SET_LOADING", b))
ReduceError   == \E m \in Messages : Reduce(Action("SET_ERROR", m))
ReduceUnknown == Reduce(Action("UNKNOWN", 0))

ReducerInit == Init /\ srv = [k \in Kinds |-> <<>>]

ReducerNext ==
    \/ ReduceSet
    \/ ReduceAdd
    \/ ReduceUpdate
    \/ ReduceDelete
    \/ ReduceLoading
    \/ ReduceError
    \/ ReduceUnknown

ReducerSpec == ReducerInit /\ [][ReducerNext]_vars

\* ------------------------------------------------------------- the claims
Collections(s) == <<s.contacts, s.leads, s.deals, s.activities>>

AllResolved == \A k \in Kinds : fetch[k].st = "resolved"
AnyRejected == AnyFetchRejected

\* The step in which loadInitialData returns.
LoadCompletes == loadPc = "finally" /\ loadPc' = "done"

\* C1: when all four fetches of loadInitialData resolve, the load completes
\* with loading = false and each collection equal to the list its fetch
\* returned; run on the initial store with no other operation issued, it
\* completes with error = null as well.
C1_LoadAllResolved ==
    [][(LoadCompletes /\ AllResolved) =>
          /\ state'.contacts = fetch["contacts"].res
          /\ state'.leads = fetch["leads"].res
          /\ state'.deals = fetch["deals"].res
          /\ state'.activities = fetch["activities"].res
          /\ state'.loading = FALSE
          /\ (issued = 0 => state'.error = NULL)]_vars

C1_Witness ==
    /\ loadPc = "done"
    /\ AllResolved
    /\ issued = 0
    /\ state = [activities |-> <<Rec(1, 0)>>, contacts |-> <<Rec(1, 0)>>,
                deals |-> <<Rec(1, 0)>>, error |-> NULL,
                leads |-> <<Rec(1, 0)>>, loading |-> FALSE]

\* C2: when a fetch of loadInitialData has rejected, no step of the load
\* changes a collection or is one of the Set* dispatches, whatever the other
\* three fetches did and in whatever order, and the load completes with
\* error = "Failed to load CRM data" and loading = false.
C2_LoadAllOrNothing ==
    [][(loadPc' # loadPc /\ AnyRejected) =>
          /\ Collections(state') = Collections(state)
          /\ loadPc' \in {"finally", "done"}
          /\ (loadPc' = "done" =>
                /\ state'.error = "Failed to load CRM data"
                /\ state'.loading = FALSE)]_vars

C2_Witness ==
    /\ loadPc = "done"
    /\ fetch["deals"].st = "rejected"
    /\ fetch["contacts"].st = "resolved" /\ fetch["contacts"].res # <<>>
    /\ fetch["leads"].st = "resolved" /\ fetch["leads"].res # <<>>
    /\ state.contacts = <<>> /\ state.leads = <<>>
    /\ state.error = "Failed to load CRM data"
    /\ state.loading = FALSE

\* The step in which the continuation of the settled call c runs.
Continues(c) == BagIn(c, calls) /\ c.st # "sent" /\ calls' = calls (-) One(c)

InFlight == BagToSet(calls)

Fields == {"contacts", "leads", "deals", "activities", "loading", "error"}

OnlyChanges(f) == \A g \in Fields \ {f} : state'[g] = state[g]

CreateMsg(k) ==
    CASE k = "contacts"   -> "Failed to create contact"
      [] k = "leads"      -> "Failed to create lead"
      [] k = "deals"      -> "Failed to create deal"
      [] k = "activities" -> "Failed to create activity"

UpdateMsg(k) ==
    CASE k = "contacts" -> "Failed to update contact"
      [] k = "leads"    -> "Failed to update lead"
      [] k = "deals"    -> "Failed to update deal"

\* C3: for each kind, the continuation of a create call that resolved with
\* record r puts r at index 0 of that kind's collection, the previous elements
\* following in their order, and changes nothing else (error included); the
\* continuation of a create call that rejected changes no collection and sets
\* error to "Failed to create <entity>".
C3_Create ==
    [][\A c \in InFlight : (Continues(c) /\ c.verb = "create") =>
          IF c.st = "resolved"
          THEN /\ state'[c.kind] = <<c.res>> \o state[c.kind]
               /\ OnlyChanges(c.kind)
          ELSE /\ state'.error = CreateMsg(c.kind)
               /\ OnlyChanges("error")]_vars

C3_Witness ==
    /\ state.contacts = <<Rec(2, 1), Rec(1, 0)>>
    /\ state.error = "Failed to create lead"
    /\ calls = EmptyBag

\* C4: for contact, lead and deal, the continuation of an update call that
\* resolved with record r replaces every stored element whose id is r.id by r,
\* keeps every other element and the order, and changes nothing else; the
\* continuation of an update call that rejected changes no collection and
\* sets error to "Failed to update <entity>".
C4_Update ==
    [][\A c \in InFlight : (Continues(c) /\ c.verb = "update") =>
          IF c.st = "resolved"
          THEN /\ Len(state'[c.kind]) = Len(state[c.kind])
               /\ \A i \in 1..Len(state[c.kind]) :
                     state'[c.kind][i] =
                        IF state[c.kind][i].id = c.res.id THEN c.res
                        ELSE state[c.kind][i]
               /\ OnlyChanges(c.kind)
          ELSE /\ state'.error = UpdateMsg(c.kind)
               /\ OnlyChanges("error")]_vars

C4_Witness ==
    /\ loadPc = "done"
    /\ AllResolved
    /\ fetch["deals"].res = <<Rec(1, 0), Rec(2, 1)>>
    /\ state.deals = <<Rec(1, 2), Rec(2, 1)>>

OtherId(x, id) == x.id # id
Remaining(xs, id) == SelectSeq(xs, LAMBDA x : OtherId(x, id))

\* C5: the continuation of a deleteContact(id) call that resolved leaves no
\* contact with that id and keeps the others in their order; the continuation
\* of one that rejected keeps contacts and sets error to "Failed to delete
\* contact"; the step that issues the call changes nothing in the store.
C5_DeleteContact ==
    [][/\ \A c \in InFlight : (Continues(c) /\ c.op = "deleteContact") =>
             IF c.st = "resolved"
             THEN /\ \A i \in 1..Len(state'.contacts) : state'.contacts[i].id # c.id
                  /\ state'.contacts = Remaining(state.contacts, c.id)
                  /\ OnlyChanges("contacts")
             ELSE /\ state'.error = "Failed to delete contact"
                  /\ OnlyChanges("error")
       /\ \A i \in Ids :
             calls' = calls (+) One(Call("deleteContact", "delete", "contacts", i, 0))
                => state' = state]_vars

C5_Witness ==
    /\ loadPc = "done"
    /\ AllResolved
    /\ fetch["contacts"].res = <<Rec(1, 0), Rec(2, 1)>>
    /\ state.contacts = <<Rec(2, 1)>>

\* C6: getAIInsights never raises the gateway's failure: the continuation of a
\* call that rejected gives null and sets error to "Failed to get AI
\* insights"; the continuation of a call that resolved gives the gateway's
\* result and leaves the whole store unchanged.
C6_Insights ==
    [][\A c \in InFlight : (Continues(c) /\ c.op = "getAIInsights") =>
          IF c.st = "resolved"
          THEN /\ insights' = [ret |-> "value", val |-> c.res.v]
               /\ state' = state
          ELSE /\ insights' = [ret |-> "null", val |-> 0]
               /\ state'.error = "Failed to get AI insights"
               /\ OnlyChanges("error")]_vars

C6_Witness ==
    /\ insights.ret = "null"
    /\ state.error = "Failed to get AI insights"

\* loadInitialData has dispatched SET_LOADING true and not yet its final
\* SET_LOADING false.
LoadWindow == loadPc \notin {"idle", "done"}

\* C7: in every reachable state loading is true exactly when loadInitialData
\* has dispatched SET_LOADING true and not yet its final SET_LOADING false,
\* and no step of another operation changes loading.
C7_LoadingWindow ==
    /\ [](state.loading <=> LoadWindow)
    /\ [][loadPc' = loadPc => state'.loading = state.loading]_vars

C7_Witness ==
    /\ state.loading = TRUE
    /\ loadPc = "awaiting"
    /\ state.contacts # <<>>
    /\ state.error = "Failed to update lead"

\* C8: when every gateway call settles, a loadInitialData that was started
\* reaches loading = false, whether its fetches resolved or one rejected, and
\* loading is false from then on.
C8_LoadEnds == (loadPc # "idle") ~> [](state.loading = FALSE)

C8_Witness ==
    /\ loadPc = "done"
    /\ AnyRejected
    /\ state.loading = FALSE

\* The load is between its SET_CONTACTS dispatch and its final SET_LOADING.
MidBatch == loadPc \in {"SET_LEADS", "SET_DEALS", "SET_ACTIVITIES", "finally"}

\* C9: between SET_CONTACTS and the final SET_LOADING false of loadInitialData
\* no continuation of another operation runs and every change of the store is
\* the load's own next dispatch.
C9_LoadBatch ==
    [][/\ (\E c \in InFlight : Continues(c)) => ~MidBatch
       /\ (MidBatch /\ state' # state) => loadPc' # loadPc]_vars

C9_Witness ==
    /\ loadPc = "SET_DEALS"
    /\ state.contacts # <<>>
    /\ \E c \in InFlight : c.op = "createContact" /\ c.st = "resolved"

\* C10: no two elements of one collection have the same id.
C10_UniqueIds ==
    \A k \in Kinds : \A i, j \in 1..Len(state[k]) :
        i # j => state[k][i].id # state[k][j].id

\* The ids a collection holds.
IdSet(xs) == {xs[i].id : i \in 1..Len(xs)}

\* No controller operation is in flight: the load has returned and every
\* other operation has run its continuation.
Quiescent == loadPc = "done" /\ calls = EmptyBag

\* No gateway call of the run has failed: the four fetches resolved and no
\* continuation has dispatched a failure message.
NoCallFailed == AllResolved /\ state.error = NULL

\* C11: in a run in which no gateway call fails, once no controller operation
\* is in flight the store holds exactly the contact ids the gateway holds.
C11_StoreMatchesServer ==
    (Quiescent /\ NoCallFailed) => IdSet(state.contacts) = IdSet(srv["contacts"])

\* ------------------------------------------- the claims about the reducer
Reverse(xs) == [i \in 1..Len(xs) |-> xs[Len(xs) + 1 - i]]

AddSeqs == UNION {[1..n -> Recs] : n \in 0..MaxAdds}

\* The reducer applied to ADD_<kind> of ps[1], then of ps[2], and so on.
RECURSIVE AddAll(_, _, _)
AddAll(s, k, ps) ==
    IF ps = <<>> THEN s
    ELSE AddAll(crmReducer(s, Action(AddType(k), Head(ps))), k, Tail(ps))

\* C12: a sequence of ADD actions of one kind applied to an empty collection
\* gives a collection as long as the sequence that lists the payloads in
\* reverse order of application; each ADD makes the collection one longer,
\* puts its payload at index 0 and keeps the previous elements in order
\* after it.
C12_AddSequence ==
    \A k \in Kinds :
        /\ state[k] = <<>> =>
              \A ps \in AddSeqs :
                  LET out == AddAll(state, k, ps)[k]
                  IN  Len(out) = Len(ps) /\ out = Reverse(ps)
        /\ \A r \in Recs :
              LET out == crmReducer(state, Action(AddType(k), r))[k]
              IN  /\ Len(out) = Len(state[k]) + 1
                  /\ out[1] = r
                  /\ \A i \in 1..Len(state[k]) : out[i + 1] = state[k][i]

C12_Witness == state.leads = <<Rec(2, 2), Rec(1, 2), Rec(1, 1)>>

\* C13: UPDATE_CONTACT, UPDATE_LEAD and UPDATE_DEAL with a record whose id
\* matches no element leave the collection as it was, element for element,
\* and set no error.
C13_UpdateAbsent ==
    \A k \in Updatable : \A r \in Recs :
        r.id \notin IdSet(state[k]) =>
            LET out == crmReducer(state, Action(UpdateType(k), r))
            IN  /\ Len(out[k]) = Len(state[k])
                /\ \A i \in 1..Len(state[k]) : out[k][i] = state[k][i]
                /\ out.error = state.error

C13_Witness ==
    /\ state.deals = <<Rec(2, 1), Rec(2, 2)>>
    /\ state.error = NULL

\* C14: DELETE_CONTACT of an id no contact has leaves contacts identical in
\* length and contents, and DELETE_CONTACT applied twice gives the state it
\* gives applied once.
C14_DeleteAbsent ==
    \A i \in Ids :
        LET once == crmReducer(state, Action("DELETE_CONTACT", i))
        IN  /\ i \notin IdSet(state.contacts) =>
                  /\ Len(once.contacts) = Len(state.contacts)
                  /\ once.contacts = state.contacts
            /\ crmReducer(once, Action("DELETE_CONTACT", i)) = once
            /\ i \notin IdSet(once.contacts)

C14_Witness == state.contacts = <<Rec(2, 1), Rec(1, 2), Rec(2, 2)>>

\* C15: SET_CONTACTS applied twice with one list gives the state it gives
\* applied once, and the contacts it gives are the list, whatever the
\* contacts were.
C15_SetContacts ==
    \A l \in Lists :
        LET once == crmReducer(state, Action("SET_CONTACTS", l))
        IN  /\ crmReducer(once, Action("SET_CONTACTS", l)) = once
            /\ once.contacts = l

C15_Witness ==
    /\ state.contacts = <<Rec(1, 1), Rec(2, 2)>>
    /\ state.leads # <<>>
    /\ state.loading

\* The result of the reducer differs from s in no field but f.
Frame(s, out, f) == \A g \in Fields \ {f} : out[g] = s[g]

\* C16: every action changes at most the field it names (SET_LOADING only
\* loading, SET_ERROR only error, SET/ADD/UPDATE/DELETE of a kind only that
\* kind's collection), and an action of an unknown type changes nothing; so
\* DELETE_CONTACT leaves leads, deals and activities as they were.
C16_Frame ==
    /\ \A b \in BOOLEAN :
          Frame(state, crmReducer(state, Action("SET_LOADING", b)), "loading")
    /\ \A m \in Messages :
          Frame(state, crmReducer(state, Action("SET_ERROR", m)), "error")
    /\ \A k \in Kinds :
          /\ \A l \in Lists :
                Frame(state, crmReducer(state, Action(SetType(k), l)), k)
          /\ \A r \in Recs :
                Frame(state, crmReducer(state, Action(AddType(k), r)), k)
    /\ \A k \in Updatable : \A r \in Recs :
          Frame(state, crmReducer(state, Action(UpdateType(k), r)), k)
    /\ \A i \in Ids :
          LET out == crmReducer(state, Action("DELETE_CONTACT", i))
          IN  /\ Frame(state, out, "contacts")
              /\ out.leads = state.leads
              /\ out.deals = state.deals
              /\ out.activities = state.activities
    /\ crmReducer(state, Action("UNKNOWN", 0)) = state

C16_Witness ==
    /\ state.loading
    /\ state.error # NULL
    /\ state.contacts = <<Rec(1, 1)>>
    /\ \A k \in Kinds : IdSet(state[k]) = {1}

\* ------------------------------------------------ the claims about races
\* How many elements of xs have the id.
Occurs(xs, id) == Cardinality({i \in 1..Len(xs) : xs[i].id = id})

\* Two createContact calls are in flight together and both have resolved.
TwoCreates(c, d) ==
    /\ c \in Settled("createContact") /\ c.st = "resolved"
    /\ d \in Settled("createContact") /\ d.st = "resolved"
    /\ c # d

\* C17: when two createContact calls in flight together have both resolved,
\* then in either order of their continuations the contacts after both hold
\* each of the two server records exactly once, the record dispatched last
\* at index 0, the other next, and the contacts stored before after them.
C17_TwoCreates ==
    \A c, d \in InFlight :
        (JsIdle /\ TwoCreates(c, d)) =>
            LET first == crmReducer(state, AddContact(c.res))
                final == crmReducer(first, AddContact(d.res)).contacts
            IN  /\ final = <<d.res, c.res>> \o state.contacts
                /\ Occurs(final, c.res.id) = 1
                /\ Occurs(final, d.res.id) = 1

\* Two update calls for one id of one kind are in flight together and both
\* have resolved.
TwoUpdates(c, d) ==
    /\ c.verb = "update" /\ c.st = "resolved"
    /\ d.verb = "update" /\ d.st = "resolved"
    /\ c.kind = d.kind /\ c.res.id = d.res.id
    /\ c # d

\* The Update dispatch that carries the server record of call c.
UpdateWith(c) == Action(UpdateType(c.kind), c.res)

\* C18: when two update calls for one id in flight together have both
\* resolved, then in either order of their dispatches every stored record of
\* that id is afterwards the record of the dispatch applied last and every
\* other record is as before; and the continuation of any resolved update
\* call, however late, is that dispatch and leaves every stored record of
\* another id as it was.
C18_RacingUpdates ==
    /\ [](\A c, d \in InFlight :
            (JsIdle /\ TwoUpdates(c, d)) =>
                LET k     == c.kind
                    first == crmReducer(state, UpdateWith(c))
                    final == crmReducer(first, UpdateWith(d))[k]
                IN  /\ Len(final) = Len(state[k])
                    /\ \A i \in 1..Len(state[k]) :
                          final[i] = IF state[k][i].id = d.res.id THEN d.res
                                     ELSE state[k][i])
    /\ [][\A c \in InFlight :
            (Continues(c) /\ c.verb = "update" /\ c.st = "resolved") =>
                /\ state' = crmReducer(state, UpdateWith(c))
                /\ Len(state'[c.kind]) = Len(state[c.kind])
                /\ \A i \in 1..Len(state[c.kind]) :
                      state[c.kind][i].id # c.res.id =>
                          state'[c.kind][i] = state[c.kind][i]]_vars

\* Both updates of contact 1 have been applied; the gateway served the one
\* with content 2 last, the store applied the one with content 1 last.
C18_Witness ==
    /\ Quiescent /\ NoCallFailed
    /\ issued = 2
    /\ fetch["contacts"].res = <<Rec(1, 0)>>
    /\ srv["contacts"] = <<Rec(1, 2)>>
    /\ state.contacts = <<Rec(1, 1)>>

\* A step in which an operation handles the failure of its gateway call.
FailureHandled ==
    \/ \E c \in InFlight : Continues(c) /\ c.st = "rejected"
    \/ loadPc = "awaiting" /\ AnyRejected /\ loadPc' = "finally"

\* C19: once error holds a message it is non-null in every later state; no
\* step sets it to null, a step that changes it is the handling of a failed
\* gateway call, and the continuation of a resolved call and every dispatch
\* of a successful loadInitialData leave it as it is.
C19_ErrorSticky ==
    [][/\ state.error # NULL => state'.error # NULL
       /\ state'.error # state.error => (state'.error # NULL /\ FailureHandled)
       /\ \A c \in InFlight :
             (Continues(c) /\ c.st = "resolved") => state'.error = state.error
       /\ (loadPc' # loadPc /\ ~AnyRejected) => state'.error = state.error]_vars

\* A createContact failed while the load was awaiting its fetches, and the
\* load has since applied its four lists.
C19_Witness ==
    /\ loadPc = "finally"
    /\ AllResolved
    /\ state.activities # <<>>
    /\ state.error = "Failed to create contact"

\* The ids of a collection, in its order.
IdSeq(xs) == [i \in 1..Len(xs) |-> xs[i].id]

\* updateContact(id) and deleteContact(id) are in flight together and both
\* have resolved.
UpdateDeleteRace(c, d) ==
    /\ c.op = "updateContact" /\ c.st = "resolved"
    /\ d.op = "deleteContact" /\ d.st = "resolved"
    /\ c.res.id = d.id

\* The Delete dispatch of the deleteContact call d.
DeleteWith(d) == Action("DELETE_CONTACT", d.id)

====
